---- MODULE Spec2Model ----
(***************************************************************************)
(* Model of kickstart-ai (LiftOff): backend selection (core.py), the       *)
(* OpenAI backend (backend/openai_backend.py) and the local-first          *)
(* HuggingFace backend (backend/hf_backend.py).                            *)
(*                                                                         *)
(* Python strings are sequences of one-character strings, so that          *)
(* json.loads, str() and slicing are computed rather than assumed.         *)
(***************************************************************************)
EXTENDS Integers, Sequences, FiniteSets, TLC

(***************************************************************************)
(* Bounds                                                                  *)
(***************************************************************************)
\* largest number of key/value pairs in a generated JSON object text
MaxPairs == 1
\* how many characters may be cut off the end of a provider output
MaxCut == 3

(***************************************************************************)
(* Python values                                                           *)
(***************************************************************************)
PyVal(t, s, n, items, pairs) ==
    [t |-> t, s |-> s, n |-> n, items |-> items, pairs |-> pairs]

None == PyVal("NoneType", <<>>, 0, <<>>, <<>>)
PyStr(s) == PyVal("str", s, 0, <<>>, <<>>)
PyInt(n) == PyVal("int", <<>>, n, <<>>, <<>>)
PyBool(b) == PyVal("bool", <<>>, IF b THEN 1 ELSE 0, <<>>, <<>>)
\* float("nan"), float("inf"), float("-inf"): s holds what str() prints
PyFloat(s) == PyVal("float", s, 0, <<>>, <<>>)
PyList(items) == PyVal("list", <<>>, 0, items, <<>>)
\* a dict is its items in insertion order, keys unique
PyDict(pairs) == PyVal("dict", <<>>, 0, <<>>, pairs)

\* bool(x) for the values the code tests with `if x:` / `x or y`
Truthy(v) ==
    CASE v.t = "NoneType" -> FALSE
      [] v.t = "str" -> Len(v.s) > 0
      [] v.t = "int" -> v.n # 0
      [] v.t = "bool" -> v.n # 0
      [] v.t = "list" -> Len(v.items) > 0
      [] v.t = "dict" -> Len(v.pairs) > 0
      [] OTHER -> TRUE

\* Python's `a or b`
PyOr(a, b) == IF Truthy(a) THEN a ELSE b

\* s[:n]
Slice(s, n) == SubSeq(s, 1, IF Len(s) < n THEN Len(s) ELSE n)

Digit == <<"0", "1", "2", "3", "4", "5", "6", "7", "8", "9">>

RECURSIVE NatToStr(_)
NatToStr(n) == IF n < 10 THEN <<Digit[n + 1]>>
               ELSE NatToStr(n \div 10) \o <<Digit[(n % 10) + 1]>>

IntToStr(n) == IF n < 0 THEN <<"-">> \o NatToStr(-n) ELSE NatToStr(n)

HasChar(s, c) == \E i \in 1..Len(s) : s[i] = c

\* dict(pairs) / d[k] = v : the last value of a repeated key wins, the key
\* keeps the position of its first insertion
DictSet(pairs, k, v) ==
    IF \E i \in 1..Len(pairs) : pairs[i].k = k
    THEN [i \in 1..Len(pairs) |->
            IF pairs[i].k = k THEN [k |-> k, v |-> v] ELSE pairs[i]]
    ELSE Append(pairs, [k |-> k, v |-> v])

RECURSIVE py_repr(_)
RECURSIVE JoinRepr(_)
RECURSIVE JoinItems(_)

\* ", ".join(repr(x) for x in items)
JoinRepr(items) ==
    IF items = <<>> THEN <<>>
    ELSE py_repr(Head(items))
         \o (IF Len(items) > 1 THEN <<",", " ">> ELSE <<>>)
         \o JoinRepr(Tail(items))

\* ", ".join(repr(k) + ": " + repr(v) for k, v in d.items())
JoinItems(pairs) ==
    IF pairs = <<>> THEN <<>>
    ELSE py_repr(PyStr(Head(pairs).k)) \o <<":", " ">> \o py_repr(Head(pairs).v)
         \o (IF Len(pairs) > 1 THEN <<",", " ">> ELSE <<>>)
         \o JoinItems(Tail(pairs))

\* repr(v); strings hold no backslash or control character in this model
py_repr(v) ==
    CASE v.t = "str" ->
            IF HasChar(v.s, "'") /\ ~HasChar(v.s, "\"")
            THEN <<"\"">> \o v.s \o <<"\"">>
            ELSE <<"'">> \o v.s \o <<"'">>
      [] v.t = "int" -> IntToStr(v.n)
      [] v.t = "bool" -> IF v.n # 0 THEN <<"T", "r", "u", "e">>
                         ELSE <<"F", "a", "l", "s", "e">>
      [] v.t = "NoneType" -> <<"N", "o", "n", "e">>
      [] v.t = "float" -> v.s
      [] v.t = "list" -> <<"[">> \o JoinRepr(v.items) \o <<"]">>
      [] v.t = "dict" -> <<"{">> \o JoinItems(v.pairs) \o <<"}">>

\* str(v)
py_str(v) == IF v.t = "str" THEN v.s ELSE py_repr(v)

(***************************************************************************)
(* json.loads, as CPython's json.decoder / json.scanner compute it         *)
(***************************************************************************)
WHITESPACE == {" ", "\t", "\n", "\r"}

At(s, i) == IF i <= Len(s) THEN s[i] ELSE ""

StartsWith(s, i, lit) ==
    /\ i + Len(lit) - 1 <= Len(s)
    /\ \A j \in 1..Len(lit) : s[i + j - 1] = lit[j]

RECURSIVE SkipWs(_, _)
SkipWs(s, i) == IF At(s, i) \in WHITESPACE THEN SkipWs(s, i + 1) ELSE i

Parsed(v, end) == [ok |-> TRUE, val |-> v, end |-> end, msg |-> ""]
JSONDecodeError(msg, pos) == [ok |-> FALSE, val |-> None, end |-> pos, msg |-> msg]

\* backslash escapes of one character (\b and \uXXXX are outside the alphabet)
Unescape(c) ==
    CASE c = "\"" -> "\""
      [] c = "\\" -> "\\"
      [] c = "/" -> "/"
      [] c = "n" -> "\n"
      [] c = "r" -> "\r"
      [] c = "t" -> "\t"
      [] c = "f" -> "\f"
      [] OTHER -> ""

\* scanstring(s, end, strict=True): i is the position after the opening quote
RECURSIVE scanstring(_, _, _, _)
scanstring(s, begin, i, acc) ==
    IF i > Len(s) THEN JSONDecodeError("Unterminated string starting at", begin)
    ELSE IF s[i] = "\"" THEN Parsed(PyStr(acc), i + 1)
    ELSE IF s[i] \in {"\t", "\n", "\r", "\f"}
         THEN JSONDecodeError("Invalid control character at", i)
    ELSE IF s[i] = "\\"
         THEN IF i + 1 > Len(s)
              THEN JSONDecodeError("Unterminated string starting at", begin)
              ELSE IF Unescape(s[i + 1]) = ""
                   THEN JSONDecodeError("Invalid \\escape", i)
                   ELSE scanstring(s, begin, i + 2, Append(acc, Unescape(s[i + 1])))
    ELSE scanstring(s, begin, i + 1, Append(acc, s[i]))

IsDigit(c) == \E d \in 1..10 : Digit[d] = c
DigitVal(c) == (CHOOSE d \in 1..10 : Digit[d] = c) - 1

RECURSIVE DigitsEnd(_, _)
DigitsEnd(s, i) == IF IsDigit(At(s, i)) THEN DigitsEnd(s, i + 1) ELSE i

RECURSIVE DigitsVal(_, _, _)
DigitsVal(s, i, end) ==
    IF i >= end THEN 0
    ELSE DigitVal(s[end - 1]) + 10 * DigitsVal(s, i, end - 1)

\* NUMBER_RE = (-?(?:0|[1-9]\d*))(\.\d+)?([eE][-+]?\d+)? : the integer part;
\* fraction and exponent are outside the alphabet of the generated outputs
MatchNumber(s, i) ==
    LET neg == At(s, i) = "-"
        d   == IF neg THEN i + 1 ELSE i
        end == IF At(s, d) = "0" THEN d + 1 ELSE DigitsEnd(s, d)
    IN  IF ~IsDigit(At(s, d)) THEN JSONDecodeError("Expecting value", i)
        ELSE Parsed(PyInt((IF neg THEN -1 ELSE 1) * DigitsVal(s, d, end)), end)

RECURSIVE scan_once(_, _)
RECURSIVE JSONObject(_, _, _)
RECURSIVE JSONArray(_, _, _)

\* the loop of JSONObject: i is the position after the opening quote of the
\* next key, pairs the (key, value) list so far
JSONObject(s, i, pairs) ==
    LET key == scanstring(s, i - 1, i, <<>>)
    IN  IF ~key.ok THEN key
        ELSE
        LET c == SkipWs(s, key.end)
        IN  IF At(s, c) # ":" THEN JSONDecodeError("Expecting ':' delimiter", c)
            ELSE
            LET value == scan_once(s, SkipWs(s, c + 1))
            IN  IF ~value.ok THEN value
                ELSE
                LET d == SkipWs(s, value.end)
                    now == DictSet(pairs, key.val.s, value.val)
                IN  IF At(s, d) = "}" THEN Parsed(PyDict(now), d + 1)
                    ELSE IF At(s, d) # ","
                         THEN JSONDecodeError("Expecting ',' delimiter", d)
                    ELSE
                    LET k == SkipWs(s, d + 1)
                    IN  IF At(s, k) # "\""
                        THEN JSONDecodeError(
                               "Expecting property name enclosed in double quotes", k)
                        ELSE JSONObject(s, k + 1, now)

\* the loop of JSONArray: i is the position of the next value
JSONArray(s, i, values) ==
    LET value == scan_once(s, i)
    IN  IF ~value.ok THEN value
        ELSE
        LET d == SkipWs(s, value.end)
            now == Append(values, value.val)
        IN  IF At(s, d) = "]" THEN Parsed(PyList(now), d + 1)
            ELSE IF At(s, d) # ","
                 THEN JSONDecodeError("Expecting ',' delimiter", d)
            ELSE JSONArray(s, SkipWs(s, d + 1), now)

\* py_make_scanner's _scan_once(string, idx)
scan_once(s, i) ==
    LET c == At(s, i)
    IN  CASE c = "" -> JSONDecodeError("Expecting value", i)
          [] c = "\"" -> scanstring(s, i, i + 1, <<>>)
          [] c = "{" ->
                LET k == SkipWs(s, i + 1)
                IN  IF At(s, k) = "}" THEN Parsed(PyDict(<<>>), k + 1)
                    ELSE IF At(s, k) # "\""
                         THEN JSONDecodeError(
                                "Expecting property name enclosed in double quotes", k)
                    ELSE JSONObject(s, k + 1, <<>>)
          [] c = "[" ->
                LET k == SkipWs(s, i + 1)
                IN  IF At(s, k) = "]" THEN Parsed(PyList(<<>>), k + 1)
                    ELSE JSONArray(s, k, <<>>)
          [] c = "n" /\ StartsWith(s, i, <<"n", "u", "l", "l">>) ->
                Parsed(None, i + 4)
          [] c = "t" /\ StartsWith(s, i, <<"t", "r", "u", "e">>) ->
                Parsed(PyBool(TRUE), i + 4)
          [] c = "f" /\ StartsWith(s, i, <<"f", "a", "l", "s", "e">>) ->
                Parsed(PyBool(FALSE), i + 5)
          [] IsDigit(c) \/ (c = "-" /\ IsDigit(At(s, i + 1))) -> MatchNumber(s, i)
          [] c = "N" /\ StartsWith(s, i, <<"N", "a", "N">>) ->
                Parsed(PyFloat(<<"n", "a", "n">>), i + 3)
          [] c = "I" /\ StartsWith(s, i, <<"I", "n", "f", "i", "n", "i", "t", "y">>) ->
                Parsed(PyFloat(<<"i", "n", "f">>), i + 8)
          [] c = "-" /\ StartsWith(s, i, <<"-", "I", "n", "f", "i", "n", "i", "t", "y">>) ->
                Parsed(PyFloat(<<"-", "i", "n", "f">>), i + 9)
          [] OTHER -> JSONDecodeError("Expecting value", i)

\* json.loads(raw) for a str: JSONDecoder.decode
json_loads(raw) ==
    LET r == scan_once(raw, SkipWs(raw, 1))
    IN  IF ~r.ok THEN r
        ELSE LET end == SkipWs(raw, r.end)
             IN  IF end # Len(raw) + 1 THEN JSONDecodeError("Extra data", end)
                 ELSE r

(***************************************************************************)
(* Provider outputs: JSON texts over a small alphabet, complete or cut off *)
(* at the end (an output truncated by the token budget)                    *)
(***************************************************************************)
Keys == {<<"a">>, <<"b">>}

LeafTexts == { <<"\"", "x", "\"">>, <<"1">>, <<"n", "u", "l", "l">>, <<"[", "1", "]">> }

PairText(k, v) == <<"\"">> \o k \o <<"\"", ":">> \o v

PairTexts == { PairText(k, v) : k \in Keys, v \in LeafTexts }

RECURSIVE JoinComma(_)
JoinComma(ts) ==
    IF ts = <<>> THEN <<>>
    ELSE Head(ts) \o (IF Len(ts) > 1 THEN <<",">> ELSE <<>>) \o JoinComma(Tail(ts))

ObjectTexts ==
    { <<"{">> \o JoinComma(ps) \o <<"}">> :
        ps \in UNION { [1..n -> PairTexts] : n \in 0..MaxPairs } }

CompleteTexts == ObjectTexts \cup LeafTexts \cup { <<"N", "a", "N">> }

\* t, and t with its last 1..MaxCut characters missing
CutOffs(t) == { SubSeq(t, 1, Len(t) - c) : c \in { d \in 0..MaxCut : d <= Len(t) } }

\* raw[:200] in OpenAIBackend, raw[:400] in HuggingFaceBackend
OPENAI_EXCERPT == 200
HF_EXCERPT == 400

\* an answer in prose instead of JSON, n characters long
Prose(n) == [i \in 1..n |-> "x"]

\* answers as long as the longer excerpt, and one character longer
LongTexts == { Prose(HF_EXCERPT), Prose(HF_EXCERPT + 1) }

RawOutputs == UNION { CutOffs(t) : t \in CompleteTexts } \cup LongTexts

(***************************************************************************)
(* Exceptions and call events                                              *)
(***************************************************************************)
\* a raised exception: its class, the function that raised it, the message
\* template, and the values formatted into the message
Exc(type, site, text, detail, excerpt, model_id) ==
    [type |-> type, site |-> site, text |-> text, detail |-> detail,
     excerpt |-> excerpt, model_id |-> model_id]

NoExc == Exc("", "", "", "", <<>>, "")

\* one call made during an operation: callee, its main argument, its outcome
Event(op, arg, out) == [op |-> op, arg |-> arg, out |-> out]

Ops(cs) == { cs[i].op : i \in 1..Len(cs) }

Count(cs, op) == Cardinality({ i \in 1..Len(cs) : cs[i].op = op })

(***************************************************************************)
(* Backends                                                                *)
(***************************************************************************)
LOCAL_MODEL == "microsoft/Phi-3-mini-4k-instruct"

Unset == PyVal("unset", <<>>, 0, <<>>, <<>>)

NoBackend ==
    [cls |-> "", model_id |-> "", hf_token |-> None,
     local_pipeline |-> FALSE, client |-> FALSE]

\* result of a constructor: the object, or the exception it raised together
\* with the object as far as it was initialised (nothing refers to it then)
Built(obj, cs) == [ok |-> TRUE, obj |-> obj, calls |-> cs, exc |-> NoExc]
Raised(obj, cs, e) == [ok |-> FALSE, obj |-> obj, calls |-> cs, exc |-> e]

\* OpenAIBackend.__init__(api_key); mods.OpenAI is FALSE when the import failed
OpenAIBackend_init(api_key, mods) ==
    IF ~mods.OpenAI
    THEN Raised([NoBackend EXCEPT !.cls = "OpenAIBackend"], <<>>,
                Exc("ImportError", "OpenAIBackend.__init__",
                    "openai package is required for OpenAIBackend", "", <<>>, ""))
    ELSE Built([NoBackend EXCEPT !.cls = "OpenAIBackend", !.client = TRUE],
               <<Event("OpenAI", "", "ok")>>)

\* variant: the fallback test forgets the token
CanFallBack_without_token(hf_token, mods) == mods.InferenceClient

\* the test that lets a failed local load fall back to the hosted client
CanFallBack(hf_token, mods) == Truthy(hf_token) /\ mods.InferenceClient

\* the exception of InferenceClient(...), which leaves the constructor
ClientError == Exc("Exception", "InferenceClient", "client construction failed",
                   "", <<>>, "")

\* HuggingFaceBackend.__init__(hf_token, model_id). load.local is what the
\* try block does: "ok", "OSError" when transformers.pipeline raises,
\* "CudaError" when torch.cuda.is_available() raises before the pipeline is
\* called; load.client is "ok" or "raise", what InferenceClient(...) does
HuggingFaceBackend_init(hf_token, model_id, env, mods, load) ==
    LET mid  == IF model_id # "" THEN model_id ELSE LOCAL_MODEL
        tok  == PyOr(hf_token, env.HUGGINGFACE_TOKEN)
        me   == [NoBackend EXCEPT !.cls = "HuggingFaceBackend",
                                  !.model_id = mid, !.hf_token = tok]
        tried == IF load.local = "CudaError" THEN <<>>
                 ELSE <<Event("transformers.pipeline", mid, load.local)>>
    IN  IF load.local = "ok"
        THEN Built([me EXCEPT !.local_pipeline = TRUE], tried)
        ELSE IF CanFallBack(tok, mods)
        THEN IF load.client = "ok"
             THEN Built([me EXCEPT !.client = TRUE],
                        Append(tried, Event("InferenceClient", mid, "ok")))
             ELSE Raised(me, Append(tried, Event("InferenceClient", mid, "raise")),
                         ClientError)
        ELSE Raised(me, tried,
                    Exc("RuntimeError", "HuggingFaceBackend.__init__",
                        "Could not load local model", "", <<>>, mid))

\* LiftOff.__init__(api_key, hf_token)
LiftOff_init(api_key, hf_token, env) ==
    [api_key |-> PyOr(api_key, env.OPENAI_API_KEY),
     hf_token |-> PyOr(hf_token, env.HUGGINGFACE_TOKEN)]

\* variant: the HuggingFace branch is tested before the OpenAI branch
choose_backend_hf_first(self, env, mods, load) ==
    IF Truthy(self.hf_token)
    THEN HuggingFaceBackend_init(self.hf_token, "", env, mods, load)
    ELSE IF Truthy(self.api_key)
    THEN OpenAIBackend_init(self.api_key, mods)
    ELSE Raised(NoBackend, <<>>,
                Exc("RuntimeError", "_choose_backend", "No available backend",
                    "", <<>>, ""))

\* variant: without credentials the local-first backend is built anyway
choose_backend_local_default(self, env, mods, load) ==
    IF Truthy(self.api_key)
    THEN OpenAIBackend_init(self.api_key, mods)
    ELSE HuggingFaceBackend_init(self.hf_token, "", env, mods, load)

\* variant: a failing OpenAIBackend constructor falls through to HuggingFace
choose_backend_fall_through(self, env, mods, load) ==
    LET first == OpenAIBackend_init(self.api_key, mods)
        second == HuggingFaceBackend_init(self.hf_token, "", env, mods, load)
    IN  IF Truthy(self.api_key) /\ first.ok THEN first
        ELSE IF Truthy(self.hf_token)
        THEN [second EXCEPT !.calls = (IF Truthy(self.api_key) THEN first.calls
                                       ELSE <<>>) \o second.calls]
        ELSE IF Truthy(self.api_key) THEN first
        ELSE Raised(NoBackend, <<>>,
                    Exc("RuntimeError", "_choose_backend", "No available backend",
                        "", <<>>, ""))

\* LiftOff._choose_backend
choose_backend(self, env, mods, load) ==
    IF Truthy(self.api_key)
    THEN OpenAIBackend_init(self.api_key, mods)
    ELSE IF Truthy(self.hf_token)
    THEN HuggingFaceBackend_init(self.hf_token, "", env, mods, load)
    ELSE Raised(NoBackend, <<>>,
                Exc("RuntimeError", "_choose_backend", "No available backend",
                    "", <<>>, ""))

(***************************************************************************)
(* generate_project                                                        *)
(***************************************************************************)
\* what the provider does during one generate_project call: the text it
\* produces, the outcome of the first provider call and of chat_completion
RemoteFirst == {"raise", "str", "dict", "nokey", "list"}

\* no provider call returns, so no text is produced
NoText(sc) == sc.first = "raise" /\ sc.chat = "raise"

Scenarios(remote) ==
    { sc \in [text : RawOutputs,
              first : IF remote THEN RemoteFirst ELSE {"raise", "str"},
              chat : IF remote THEN {"raise", "ok"} ELSE {"raise"}] :
        NoText(sc) => sc.text = <<>> }

\* result of a provider run: the raw text, or the exception that escaped
Ran(cs, text) == [ok |-> TRUE, calls |-> cs, raw |-> text, exc |-> NoExc]
RunFailed(cs, e) == [ok |-> FALSE, calls |-> cs, raw |-> <<>>, exc |-> e]

\* result of generate_project: the returned value, or the exception; raw is
\* the local `raw` (Unset when no provider call returned)
Returned(cs, text, v) ==
    [ok |-> TRUE, calls |-> cs, raw |-> PyStr(text), ret |-> v, exc |-> NoExc]
Failed(cs, text, e) ==
    [ok |-> FALSE, calls |-> cs, raw |-> PyStr(text), ret |-> Unset, exc |-> e]
NoRaw(cs, e) ==
    [ok |-> FALSE, calls |-> cs, raw |-> Unset, ret |-> Unset, exc |-> e]

ProviderError(site) == Exc("ProviderError", site, "provider call failed", "", <<>>, "")

\* {str(k): str(v) for k, v in file_tree.items()}
RECURSIVE StrItems(_, _)
StrItems(pairs, acc) ==
    IF pairs = <<>> THEN acc
    ELSE StrItems(Tail(pairs),
                  DictSet(acc, py_str(PyStr(Head(pairs).k)),
                          PyStr(py_str(Head(pairs).v))))

\* variant: the values are stored as their repr
OpenAI_parse_repr(cs, text) ==
    LET r == json_loads(text)
    IN  IF r.ok /\ r.val.t = "dict"
        THEN Returned(cs, text,
                      PyDict([i \in 1..Len(r.val.pairs) |->
                                [k |-> r.val.pairs[i].k,
                                 v |-> PyStr(py_repr(r.val.pairs[i].v))]]))
        ELSE Failed(cs, text, Exc("ValueError", "OpenAIBackend.generate_project",
                                 "", "", <<>>, ""))

\* OpenAIBackend.generate_project, from `raw = ...content` on
OpenAI_parse(cs, text) ==
    LET r == json_loads(text)
    IN  IF ~r.ok
        THEN Failed(cs, text, Exc("ValueError", "OpenAIBackend.generate_project",
                                 "OpenAI backend returned non-JSON output",
                                 r.msg, Slice(text, OPENAI_EXCERPT), ""))
        ELSE IF r.val.t # "dict"
        THEN Failed(cs, text, Exc("ValueError", "OpenAIBackend.generate_project",
                                 "Expected JSON object mapping file paths to contents",
                                 "", <<>>, ""))
        ELSE Returned(cs, text, PyDict(StrItems(r.val.pairs, <<>>)))

\* OpenAIBackend.generate_project
OpenAI_generate_project(meta_prompt, sc) ==
    LET cs == <<Event("chat.completions.create", meta_prompt, sc.first)>>
    IN  IF sc.first = "raise"
        THEN NoRaw(cs, ProviderError("chat.completions.create"))
        ELSE OpenAI_parse(cs, sc.text)

\* variant: a failed local generation is retried on the hosted endpoint
run_local_then_hosted(prompt, sc) ==
    LET cs == <<Event("local_pipeline", prompt, sc.first)>>
    IN  IF sc.first = "raise"
        THEN RunFailed(cs \o <<Event("text_generation", prompt, "raise"),
                               Event("chat_completion", prompt, "raise")>>,
                       ProviderError("chat_completion"))
        ELSE Ran(cs, sc.text)

\* HuggingFaceBackend._run_local
run_local(prompt, sc) ==
    LET cs == <<Event("local_pipeline", prompt, sc.first)>>
    IN  IF sc.first = "raise"
        THEN RunFailed(cs, ProviderError("local_pipeline"))
        ELSE Ran(cs, sc.text)

GENERATED_TEXT ==
    <<"g", "e", "n", "e", "r", "a", "t", "e", "d", "_", "t", "e", "x", "t">>

\* the response object of text_generation in a scenario
TextGenResponse(sc) ==
    CASE sc.first = "str" -> PyStr(sc.text)
      [] sc.first = "dict" -> PyDict(<<[k |-> GENERATED_TEXT, v |-> PyStr(sc.text)]>>)
      [] sc.first = "nokey" -> PyDict(<<[k |-> <<"e", "r", "r">>, v |-> PyStr(sc.text)]>>)
      [] OTHER -> PyList(<<PyStr(sc.text)>>)

\* d.get(k, default)
DictGet(pairs, k, default) ==
    IF \E i \in 1..Len(pairs) : pairs[i].k = k
    THEN (pairs[CHOOSE i \in 1..Len(pairs) : pairs[i].k = k]).v
    ELSE default

\* variant: a failed chat_completion is tried a second time
run_hf_chat_twice(prompt, sc, cs) ==
    LET once == Append(cs, Event("chat_completion", prompt, sc.chat))
    IN  IF sc.chat = "raise"
        THEN RunFailed(Append(once, Event("chat_completion", prompt, sc.chat)),
                       ProviderError("chat_completion"))
        ELSE Ran(once, sc.text)

\* the except branch of _run_hf: one chat_completion call with the prompt as
\* the user message
run_hf_chat(prompt, sc, cs) ==
    LET all == Append(cs, Event("chat_completion", prompt, sc.chat))
    IN  IF sc.chat = "raise"
        THEN RunFailed(all, ProviderError("chat_completion"))
        ELSE Ran(all, sc.text)

\* variant: every hosted call starts with another attempt to load the
\* local model
run_hf_reload(prompt, sc) ==
    LET cs == <<Event("transformers.pipeline", LOCAL_MODEL, "OSError"),
                Event("text_generation", prompt, sc.first)>>
        resp == TextGenResponse(sc)
    IN  IF sc.first = "raise" THEN run_hf_chat(prompt, sc, cs)
        ELSE IF resp.t = "str" THEN Ran(cs, resp.s)
        ELSE IF resp.t = "dict"
             THEN Ran(cs, py_str(DictGet(resp.pairs, GENERATED_TEXT, PyStr(py_str(resp)))))
        ELSE run_hf_chat(prompt, sc, cs)

\* HuggingFaceBackend._run_hf
run_hf(prompt, sc) ==
    LET cs == <<Event("text_generation", prompt, sc.first)>>
        resp == TextGenResponse(sc)
    IN  IF sc.first = "raise" THEN run_hf_chat(prompt, sc, cs)
        ELSE IF resp.t = "str" THEN Ran(cs, resp.s)
        ELSE IF resp.t = "dict"
             THEN Ran(cs, py_str(DictGet(resp.pairs, GENERATED_TEXT, PyStr(py_str(resp)))))
        \* no .get on the response: AttributeError inside the try block
        ELSE run_hf_chat(prompt, sc, cs)

\* variant: the error message carries the whole raw output
HF_parse_whole_raw(cs, text) ==
    LET r == json_loads(text)
    IN  IF r.ok THEN Returned(cs, text, r.val)
        ELSE Failed(cs, text, Exc("ValueError", "HuggingFaceBackend.generate_project",
                                 "Model did not return valid JSON", r.msg,
                                 text \o <<".", ".", ".">>, ""))

\* variant: unparseable output is turned into an empty tree
HF_parse_lenient(cs, text) ==
    LET r == json_loads(text)
    IN  IF r.ok THEN Returned(cs, text, r.val)
        ELSE Returned(cs, text, PyDict(<<>>))

\* HuggingFaceBackend.generate_project, from `# --- 2. Parse JSON ---` on
HF_parse(cs, text) ==
    LET r == json_loads(text)
    IN  IF r.ok THEN Returned(cs, text, r.val)
        ELSE Failed(cs, text, Exc("ValueError", "HuggingFaceBackend.generate_project",
                                 "Model did not return valid JSON", r.msg,
                                 Slice(text, HF_EXCERPT) \o <<".", ".", ".">>, ""))

\* generate_project once `raw = self._run_...(meta_prompt)` is over: an
\* exception of the run propagates, a raw text is parsed
HF_after_run(run) ==
    IF ~run.ok THEN NoRaw(run.calls, run.exc)
    ELSE HF_parse(run.calls, run.raw)

\* variant: the test on local_pipeline is inverted
HF_generate_project_inverted(self, meta_prompt, sc) ==
    HF_after_run(IF ~self.local_pipeline THEN run_local(meta_prompt, sc)
                 ELSE run_hf(meta_prompt, sc))

\* HuggingFaceBackend.generate_project
HF_generate_project(self, meta_prompt, sc) ==
    HF_after_run(IF self.local_pipeline THEN run_local(meta_prompt, sc)
                 ELSE run_hf(meta_prompt, sc))

\* backend.generate_project(meta_prompt, metadata): dispatch on the class
generate_project(self, meta_prompt, sc) ==
    IF self.cls = "OpenAIBackend" THEN OpenAI_generate_project(meta_prompt, sc)
    ELSE HF_generate_project(self, meta_prompt, sc)

\* a HuggingFaceBackend whose calls go to the hosted client
IsRemote(b) == b.cls = "HuggingFaceBackend" /\ ~b.local_pipeline

(***************************************************************************)
(* State                                                                   *)
(***************************************************************************)
VARIABLES
    environ,     \* os.environ: OPENAI_API_KEY, HUGGINGFACE_TOKEN (None = unset)
    modules,     \* whether `OpenAI` / `InferenceClient` were importable
    liftoff,     \* the LiftOff instance: api_key, hf_token
    pc,          \* where the current operation stands
    prompt,      \* create()'s prompt argument
    metadata,    \* create()'s local `metadata`
    meta_prompt, \* create()'s local `meta_prompt`
    backend,     \* the backend object built, or being built, by the operation
    raw,         \* generate_project's local `raw` (Unset: never assigned)
    file_tree,   \* the value generate_project returned
    issues,      \* validate_file_tree's result
    calls,       \* the calls made by the current operation, in order
    exc,         \* the exception that ended the current operation
    written,     \* the trees handed to write_file_tree by the current run
    token_arg    \* the hf_token argument HuggingFaceBackend(...) was called
                 \* with in the current operation (Unset: it was not called)

vars == <<environ, modules, liftoff, pc, prompt, metadata, meta_prompt,
          backend, raw, file_tree, issues, calls, exc, written, token_arg>>

\* an environment variable is unset or holds a credential; a constructor
\* argument may also be the empty string
EnvValues == { None, PyStr(<<"k">>) }
EnvNames == { "OPENAI_API_KEY", "HUGGINGFACE_TOKEN" }
ArgValues == { None, PyStr(<<>>), PyStr(<<"k">>) }

Prompts == { "a todo app", "a blog" }

\* parse_intent and build_meta_prompt are opaque: some function of the input
parse_intent(p) == IF p = "a todo app" THEN "meta(todo)" ELSE "meta(blog)"
build_meta_prompt(p, md) == IF p = "a todo app" THEN "PROMPT(todo)" ELSE "PROMPT(blog)"

MetaPrompts == { build_meta_prompt(p, parse_intent(p)) : p \in Prompts }

\* the lists validate_file_tree may return
IssueLists == { <<>>, <<"missing README">> }

LoadOutcomes ==
    [local : {"ok", "OSError", "CudaError"}, client : {"ok", "raise"}]

Init ==
    /\ environ \in [OPENAI_API_KEY : EnvValues, HUGGINGFACE_TOKEN : EnvValues]
    /\ modules \in [OpenAI : BOOLEAN, InferenceClient : BOOLEAN]
    /\ \E k \in ArgValues, t \in ArgValues : liftoff = LiftOff_init(k, t, environ)
    /\ pc = "idle"
    /\ prompt = ""
    /\ metadata = ""
    /\ meta_prompt = ""
    /\ backend = NoBackend
    /\ raw = Unset
    /\ file_tree = Unset
    /\ issues = <<>>
    /\ calls = <<>>
    /\ exc = NoExc
    /\ written = <<>>
    /\ token_arg = Unset

\* an exception escapes the current operation
Raise(e, cs) ==
    /\ pc' = "raised"
    /\ exc' = e
    /\ calls' = cs

ExternalError(site) == Exc("Exception", site, "", "", <<>>, "")

(***************************************************************************)
(* LiftOff.create, one action per statement                                *)
(***************************************************************************)
\* create(prompt): metadata = parse_intent(prompt)
Create(p, ok) ==
    /\ pc = "idle"
    /\ prompt' = p
    /\ IF ok
       THEN /\ metadata' = parse_intent(p)
            /\ pc' = "select"
            /\ calls' = <<Event("parse_intent", p, "ok")>>
            /\ exc' = exc
       ELSE /\ metadata' = metadata
            /\ Raise(ExternalError("parse_intent"), <<Event("parse_intent", p, "raise")>>)
    /\ UNCHANGED <<token_arg, environ, modules, liftoff, meta_prompt, backend, raw,
                   file_tree, issues, written>>

\* backend = self._choose_backend(metadata)
ChooseBackend(load) ==
    /\ pc = "select"
    /\ \E r \in { choose_backend(liftoff, environ, modules, load) } :
           /\ backend' = r.obj
           /\ token_arg' = IF r.obj.cls = "HuggingFaceBackend"
                           THEN liftoff.hf_token ELSE token_arg
           /\ IF r.ok
              THEN /\ pc' = "prompt"
                   /\ calls' = calls \o r.calls
                   /\ exc' = exc
              ELSE Raise(r.exc, calls \o r.calls)
    /\ UNCHANGED <<environ, modules, liftoff, prompt, metadata, meta_prompt,
                   raw, file_tree, issues, written>>

\* meta_prompt = build_meta_prompt(prompt, metadata)
BuildMetaPrompt(ok) ==
    /\ pc = "prompt"
    /\ IF ok
       THEN /\ meta_prompt' = build_meta_prompt(prompt, metadata)
            /\ pc' = "generate"
            /\ calls' = Append(calls, Event("build_meta_prompt", prompt, "ok"))
            /\ exc' = exc
       ELSE /\ meta_prompt' = meta_prompt
            /\ Raise(ExternalError("build_meta_prompt"),
                     Append(calls, Event("build_meta_prompt", prompt, "raise")))
    /\ UNCHANGED <<token_arg, environ, modules, liftoff, prompt, metadata, backend, raw,
                   file_tree, issues, written>>

\* variant: the tree is written without being validated
AfterGenerate_unvalidated(r) == IF r.ok THEN "write" ELSE "raised"

\* variant: create() carries on after a failed generate_project
AfterGenerate_swallow(r) == "validate"

\* where create() continues after backend.generate_project
AfterGenerate(r) == IF r.ok THEN "validate" ELSE "raised"

\* file_tree = backend.generate_project(meta_prompt, metadata)
Generate ==
    /\ pc = "generate"
    /\ \E sc \in Scenarios(IsRemote(backend)) :
         \E r \in { generate_project(backend, meta_prompt, sc) } :
             /\ pc' = AfterGenerate(r)
             /\ exc' = r.exc
             /\ calls' = calls \o r.calls
             /\ raw' = r.raw
             /\ file_tree' = r.ret
    /\ UNCHANGED <<token_arg, environ, modules, liftoff, prompt, metadata, meta_prompt,
                   backend, issues, written>>

\* the encoding of sys.stdout when the warnings are printed
StdoutEncodings == { "utf-8", "ascii", "cp1252" }

\* whether the encoding has U+26A0 and U+FE0F, the warning sign of the
\* heading print("... Validator warnings:")
EncodesWarningSign(enc) == enc = "utf-8"

\* the exception of print() when sys.stdout cannot encode the text
PrintError == Exc("UnicodeEncodeError", "print", "", "", <<>>, "")

\* where create() continues once validate_file_tree has returned: with no
\* issues straight on to write_file_tree; with issues the warnings are
\* printed first, and the heading's print raises when sys.stdout cannot
\* encode it
AfterValidate(found, enc) ==
    IF found # <<>> /\ ~EncodesWarningSign(enc) THEN "raised" ELSE "write"

\* issues = validate_file_tree(file_tree), and the warnings printed
Validate(found, ok, enc) ==
    /\ pc = "validate"
    /\ IF ok
       THEN /\ issues' = found
            /\ pc' = AfterValidate(found, enc)
            /\ calls' = Append(calls, Event("validate_file_tree", "", "ok"))
            /\ exc' = IF AfterValidate(found, enc) = "raised" THEN PrintError
                      ELSE exc
       ELSE /\ issues' = issues
            /\ Raise(ExternalError("validate_file_tree"),
                     Append(calls, Event("validate_file_tree", "", "raise")))
    /\ UNCHANGED <<token_arg, environ, modules, liftoff, prompt, metadata, meta_prompt,
                   backend, raw, file_tree, written>>

\* write_file_tree(file_tree, root)
Write(ok) ==
    /\ pc = "write"
    /\ written' = Append(written, file_tree)
    /\ IF ok
       THEN /\ pc' = "done"
            /\ calls' = Append(calls, Event("write_file_tree", "", "ok"))
            /\ exc' = exc
       ELSE Raise(ExternalError("write_file_tree"),
                  Append(calls, Event("write_file_tree", "", "raise")))
    /\ UNCHANGED <<token_arg, environ, modules, liftoff, prompt, metadata, meta_prompt,
                   backend, raw, file_tree, issues>>

(***************************************************************************)
(* A HuggingFaceBackend used directly, without LiftOff                     *)
(***************************************************************************)
\* backend = HuggingFaceBackend(hf_token=tok), by a program that drives the
\* backend itself: its LiftOff instance, if any, holds no credentials and
\* plays no part
Construct(tok, load) ==
    /\ pc = "idle"
    /\ ~Truthy(liftoff.api_key) /\ ~Truthy(liftoff.hf_token)
    /\ \E r \in { HuggingFaceBackend_init(tok, "", environ, modules, load) } :
           /\ backend' = r.obj
           /\ token_arg' = tok
           /\ calls' = r.calls
           /\ exc' = r.exc
           /\ pc' = IF r.ok THEN "built" ELSE "raised"
    /\ UNCHANGED <<environ, modules, liftoff, prompt, metadata, meta_prompt,
                   raw, file_tree, issues, written>>

\* backend.generate_project(mp, {}) on that object
DirectGenerate ==
    /\ pc = "built"
    /\ \E mp \in MetaPrompts, sc \in Scenarios(IsRemote(backend)) :
         \E r \in { generate_project(backend, mp, sc) } :
             /\ calls' = r.calls
             /\ exc' = r.exc
             /\ raw' = r.raw
             /\ file_tree' = r.ret
             /\ meta_prompt' = mp
    /\ pc' = "called"
    /\ UNCHANGED <<token_arg, environ, modules, liftoff, prompt, metadata, backend,
                   issues, written>>

\* the caller is done with what that call returned or raised; the object
\* stays and may be called again
Drop ==
    /\ pc = "called"
    /\ pc' = "built"
    /\ meta_prompt' = ""
    /\ raw' = Unset
    /\ file_tree' = Unset
    /\ calls' = <<>>
    /\ exc' = NoExc
    /\ UNCHANGED <<token_arg, environ, modules, liftoff, prompt, metadata, backend,
                   issues, written>>

\* the operation is over: its locals and its backend object are dropped
Finish ==
    /\ pc \in {"done", "raised", "built", "called"}
    /\ pc' = "idle"
    /\ prompt' = ""
    /\ metadata' = ""
    /\ meta_prompt' = ""
    /\ backend' = NoBackend
    /\ raw' = Unset
    /\ file_tree' = Unset
    /\ issues' = <<>>
    /\ calls' = <<>>
    /\ exc' = NoExc
    /\ written' = <<>>
    /\ token_arg' = Unset
    /\ UNCHANGED <<environ, modules, liftoff>>

\* the program around the library sets or unsets an environment variable
\* while the LiftOff instance exists. The environment is read by
\* constructors only, which run from "idle" and from "select": a change at
\* any later point of an operation is the same as a change once it is over
SetEnv(name, v) ==
    /\ pc \in {"idle", "select"}
    /\ environ[name] # v
    /\ environ' = [environ EXCEPT ![name] = v]
    /\ UNCHANGED <<modules, liftoff, pc, prompt, metadata, meta_prompt, backend,
                   raw, file_tree, issues, calls, exc, written, token_arg>>

Next ==
    \/ \E p \in Prompts, ok \in BOOLEAN : Create(p, ok)
    \/ \E load \in LoadOutcomes : ChooseBackend(load)
    \/ \E ok \in BOOLEAN : BuildMetaPrompt(ok)
    \/ Generate
    \/ \E found \in IssueLists, ok \in BOOLEAN, enc \in StdoutEncodings :
          Validate(found, ok, enc)
    \/ \E ok \in BOOLEAN : Write(ok)
    \/ \E tok \in ArgValues, load \in LoadOutcomes : Construct(tok, load)
    \/ DirectGenerate
    \/ Drop
    \/ Finish
    \/ \E name \in EnvNames, v \in EnvValues : SetEnv(name, v)

Spec == Init /\ [][Next]_vars

TypeOK ==
    /\ pc \in {"idle", "select", "prompt", "generate", "validate", "write",
               "done", "raised", "built", "called"}
    /\ backend.cls \in {"", "OpenAIBackend", "HuggingFaceBackend"}

(***************************************************************************)
(* Vocabulary of the properties                                            *)
(***************************************************************************)
\* the current operation is a create() run
InCreate == calls # <<>> /\ calls[1].op = "parse_intent"

\* _choose_backend has been called in the current create() run
Selected ==
    /\ InCreate
    /\ pc \notin {"idle", "select"}
    /\ ~(pc = "raised" /\ exc.site = "parse_intent")

\* the backend class _choose_backend went for, "error" when it raised itself
Picked ==
    IF backend.cls # "" THEN backend.cls
    ELSE IF exc.site = "_choose_backend" THEN "error"
    ELSE "none"

\* the priority table of the backend selector
ExpectedBackend(api_key, hf_token) ==
    IF Truthy(api_key) THEN "OpenAIBackend"
    ELSE IF Truthy(hf_token) THEN "HuggingFaceBackend"
    ELSE "error"

ProviderOps ==
    {"chat.completions.create", "local_pipeline", "text_generation", "chat_completion"}

HuggingFaceOps ==
    {"transformers.pipeline", "InferenceClient", "local_pipeline",
     "text_generation", "chat_completion"}

IsProviderCall(e) == e.op \in ProviderOps

\* the provider calls of the current operation, in order
ProviderCalls == SelectSeq(calls, IsProviderCall)

GenerateSites ==
    {"OpenAIBackend.generate_project", "HuggingFaceBackend.generate_project"}

\* generate_project has been called and is over in the current operation
Generated ==
    \/ pc = "called"
    \/ InCreate /\ pc \in {"validate", "write", "done"}
    \/ InCreate /\ pc = "raised" /\ exc.site \in GenerateSites \cup ProviderOps

\* a HuggingFaceBackend whose local load failed
LocalLoadFailed == backend.cls = "HuggingFaceBackend" /\ ~backend.local_pipeline

(***************************************************************************)
(* Properties                                                              *)
(***************************************************************************)
\* C1: once _choose_backend has run in a create(), the backend class it went
\* for is the one the priority table gives for the present/absent
\* credentials: OpenAIBackend when the API key is present, else
\* HuggingFaceBackend when the token is present, else the error.
C1_PriorityOrder ==
    Selected => Picked = ExpectedBackend(liftoff.api_key, liftoff.hf_token)

\* both credentials present and the selection done: OpenAIBackend was built
C1_Witness ==
    /\ InCreate /\ pc = "prompt"
    /\ Truthy(liftoff.api_key) /\ Truthy(liftoff.hf_token)
    /\ backend.cls = "OpenAIBackend"

\* C2: with neither credential, create() ends in _choose_backend's
\* RuntimeError with no backend object, and the run has made no model
\* initialisation, no provider call and no write_file_tree call.
C2_NoCredentials ==
    (Selected /\ ~Truthy(liftoff.api_key) /\ ~Truthy(liftoff.hf_token)) =>
        /\ pc = "raised"
        /\ exc.type = "RuntimeError" /\ exc.site = "_choose_backend"
        /\ backend = NoBackend
        /\ Ops(calls) = {"parse_intent"}
        /\ written = <<>>

C2_Witness ==
    /\ Selected /\ ~Truthy(liftoff.api_key) /\ ~Truthy(liftoff.hf_token)
    /\ pc = "raised" /\ exc.site = "_choose_backend"

\* C3: when an exception was raised in a create() run anywhere before
\* write_file_tree, the run is over and write_file_tree was not called in it.
C3_NoWriteAfterFailure ==
    (InCreate /\ exc.type # "" /\ exc.site # "write_file_tree") =>
        /\ pc = "raised"
        /\ "write_file_tree" \notin Ops(calls)
        /\ written = <<>>

\* a create() run ended by the backend's JSON parse failure
C3_Witness ==
    /\ InCreate /\ pc = "raised"
    /\ exc.site \in GenerateSites
    /\ raw.t = "str" /\ written = <<>>

\* C4: in a create() run with an API key the HuggingFaceBackend is never
\* constructed or called, whether or not a token is present, and a failure
\* of the OpenAIBackend constructor or of its generate_project ends the run
\* with that exception.
C4_ChoiceIsFinal ==
    (InCreate /\ Truthy(liftoff.api_key)) =>
        /\ backend.cls # "HuggingFaceBackend"
        /\ Ops(calls) \cap HuggingFaceOps = {}
        /\ (Selected /\ backend.cls = "OpenAIBackend" /\ ~backend.client) =>
              (pc = "raised" /\ exc.site = "OpenAIBackend.__init__")
        /\ (exc.site \in {"OpenAIBackend.__init__", "chat.completions.create",
                          "OpenAIBackend.generate_project"}) => pc = "raised"

\* key and token both present, the OpenAIBackend constructor raised
C4_Witness ==
    /\ InCreate /\ Truthy(liftoff.api_key) /\ Truthy(liftoff.hf_token)
    /\ pc = "raised" /\ exc.site = "OpenAIBackend.__init__"

\* C5: a HuggingFaceBackend whose local load failed and that has no token
\* is never usable: its constructor raised the RuntimeError, no hosted
\* client was constructed and no network call was made (the constructor
\* called nothing but, when it got that far, transformers.pipeline).
C5_Unavailable ==
    (LocalLoadFailed /\ ~Truthy(backend.hf_token)) =>
        /\ pc = "raised"
        /\ exc.type = "RuntimeError" /\ exc.site = "HuggingFaceBackend.__init__"
        /\ ~backend.client
        /\ Ops(calls) \subseteq {"transformers.pipeline"}

C5_Witness ==
    /\ LocalLoadFailed /\ ~Truthy(backend.hf_token)
    /\ pc = "raised" /\ exc.site = "HuggingFaceBackend.__init__"
    /\ modules.InferenceClient

C7_SingleChatRetry ==
    (ProviderCalls # <<>> /\ ProviderCalls[1].op = "text_generation"
        /\ ProviderCalls[1].out = "raise") =>
        /\ Len(ProviderCalls) = 2
        /\ ProviderCalls[2].op = "chat_completion"
        /\ ProviderCalls[2].arg = ProviderCalls[1].arg
        /\ ProviderCalls[1].arg = meta_prompt
        /\ ProviderCalls[2].out = "raise" =>
              /\ exc = ProviderError("chat_completion")
              /\ file_tree = Unset
              /\ pc \in {"raised", "called"}

\* text_generation and chat_completion both raised
C7_Witness ==
    /\ Len(ProviderCalls) = 2
    /\ ProviderCalls[1].op = "text_generation" /\ ProviderCalls[1].out = "raise"
    /\ ProviderCalls[2].op = "chat_completion" /\ ProviderCalls[2].out = "raise"
    /\ exc.site = "chat_completion"

\* C8: when the raw output is not parseable by json.loads, generate_project
\* has raised the ValueError that carries the parser's message, and has
\* returned nothing.
C8_MalformedJsonFails ==
    (raw.t = "str" /\ ~json_loads(raw.s).ok) =>
        /\ file_tree = Unset
        /\ exc.type = "ValueError" /\ exc.site \in GenerateSites
        /\ exc.detail = json_loads(raw.s).msg
        /\ pc \in {"raised", "called"}

\* the HuggingFaceBackend got an object text cut off before its end
C8_Witness ==
    /\ backend.cls = "HuggingFaceBackend"
    /\ raw.t = "str" /\ Len(raw.s) > 1 /\ raw.s[1] = "{"
    /\ ~json_loads(raw.s).ok
    /\ exc.site = "HuggingFaceBackend.generate_project"

\* C9: when the raw output parses to something that is not a dict,
\* generate_project has raised a ValueError and has returned nothing.
C9_NonObjectRejected ==
    (raw.t = "str" /\ json_loads(raw.s).ok /\ json_loads(raw.s).val.t # "dict") =>
        (file_tree = Unset /\ exc.type = "ValueError")

AllStrings(pairs) == \A i \in 1..Len(pairs) : pairs[i].v.t = "str"

\* C10: a dict returned by generate_project has only strings as values.
C10_ValuesAreStrings ==
    file_tree.t = "dict" => AllStrings(file_tree.pairs)

\* validate_file_tree has returned in the current create() run
Validated ==
    /\ InCreate
    /\ \E i \in 1..Len(calls) :
           calls[i].op = "validate_file_tree" /\ calls[i].out = "ok"

\* C11: once validate_file_tree has returned in a create() run, whatever
\* issue list it gave (empty or not), the run is either about to call
\* write_file_tree or has called it with the generated tree; the issue list
\* never ends the run.
C11_ValidationAdvisory ==
    Validated =>
        \/ pc = "write" /\ exc = NoExc
        \/ /\ "write_file_tree" \in Ops(calls)
           /\ written = <<file_tree>>
           /\ pc = "done" \/ (pc = "raised" /\ exc.site = "write_file_tree")

\* the step of create() a call belongs to: 1 intent parsing, 2 backend
\* selection, 3 prompt construction, 4 generate_project, 5 validation,
\* 6 materialization
StepOf(op) ==
    CASE op = "parse_intent" -> 1
      [] op \in {"OpenAI", "transformers.pipeline", "InferenceClient"} -> 2
      [] op = "build_meta_prompt" -> 3
      [] op \in ProviderOps -> 4
      [] op = "validate_file_tree" -> 5
      [] OTHER -> 6

StepsRun == { StepOf(calls[i].op) : i \in 1..Len(calls) }

\* step k of the current create() run is over and has given its result
Completed(k) ==
    CASE k = 1 -> calls[1].out = "ok" /\ metadata = parse_intent(prompt)
      [] k = 2 -> backend.cls # "" /\ (backend.client \/ backend.local_pipeline)
      [] k = 3 -> meta_prompt = build_meta_prompt(prompt, metadata)
      [] k = 4 -> file_tree # Unset
      [] k = 5 -> Validated
      [] OTHER -> pc = "done"

\* the provider calls one generate_project call can make
OneGenerateCall ==
    { <<>>, <<"chat.completions.create">>, <<"local_pipeline">>,
      <<"text_generation">>, <<"text_generation", "chat_completion">> }

\* C12: in a create() run the calls are made in the order of the steps
\* (parsing, selection, prompt, generate_project, validation, writing); no
\* step is run twice; a step has been started only when every earlier step
\* was run and completed successfully; a run that is done ran all six and
\* completed all six.
C12_FixedOrder ==
    InCreate =>
        /\ \A i, j \in 1..Len(calls) :
              i < j => StepOf(calls[i].op) <= StepOf(calls[j].op)
        /\ \A op \in {"parse_intent", "OpenAI", "transformers.pipeline",
                       "InferenceClient", "build_meta_prompt",
                       "validate_file_tree", "write_file_tree"} :
              Count(calls, op) <= 1
        /\ [i \in 1..Len(ProviderCalls) |-> ProviderCalls[i].op] \in OneGenerateCall
        /\ \A k \in StepsRun : \A j \in 1..(k - 1) : j \in StepsRun /\ Completed(j)
        /\ pc = "done" => (StepsRun = 1..6 /\ \A k \in 1..6 : Completed(k))

\* a successful run through the Remote-Ready backend's chat retry
C12_Witness ==
    /\ InCreate /\ pc = "done"
    /\ StepsRun = 1..6
    /\ Len(ProviderCalls) = 2

\* the parse result r is a JSON object all of whose values are strings
StringObject(r) == r.ok /\ r.val.t = "dict" /\ AllStrings(r.val.pairs)

\* the dict d has exactly the keys of the parsed object p, each with the
\* same value
SameItems(p, d) ==
    /\ d.t = "dict"
    /\ Len(d.pairs) = Len(p.pairs)
    /\ { d.pairs[i].k : i \in 1..Len(d.pairs) } =
       { p.pairs[i].k : i \in 1..Len(p.pairs) }
    /\ \A i \in 1..Len(d.pairs) :
          \E j \in 1..Len(p.pairs) :
              p.pairs[j].k = d.pairs[i].k /\ p.pairs[j].v = d.pairs[i].v

\* generate_project got the text and has handled the parse result r of it
RoundTrip(r) ==
    StringObject(r) =>
        (exc.site \notin GenerateSites /\ SameItems(r.val, file_tree))

\* C13: when the raw output is a JSON object with only string values,
\* generate_project has returned, for either backend, a dict with exactly
\* the keys of that object, each mapped to the same string.
C13_RoundTrip == raw.t = "str" => RoundTrip(json_loads(raw.s))

\* the OpenAIBackend returned the tree of {"a":"x"}
C13_Witness ==
    /\ backend.cls = "OpenAIBackend"
    /\ raw = PyStr(<<"{", "\"", "a", "\"", ":", "\"", "x", "\"", "}">>)
    /\ file_tree = PyDict(<<[k |-> <<"a">>, v |-> PyStr(<<"x">>)]>>)

\* C14: when the HuggingFaceBackend constructor has raised its
\* RuntimeError, the error names the model identifier, carries the
\* remediation text, and names the cause of the local failure: the
\* exception transformers.pipeline raised, when it was the pipeline.
C14_UnavailableNamesCause ==
    (pc = "raised" /\ exc.site = "HuggingFaceBackend.__init__") =>
        /\ exc.model_id = backend.model_id
        /\ exc.text = "Could not load local model"
        /\ exc.detail # ""
        /\ \A i \in 1..Len(calls) :
              calls[i].op = "transformers.pipeline" => exc.detail = calls[i].out

\* the part of the raw output a parse-failure error carries: the
\* HuggingFaceBackend appends "..." to it
RawPrefix(e) ==
    IF e.site = "HuggingFaceBackend.generate_project"
    THEN SubSeq(e.excerpt, 1, Len(e.excerpt) - 3)
    ELSE e.excerpt

\* C15: when the raw output is not parseable, the error generate_project
\* raised, for either backend, carries the parser's message and a prefix
\* of the raw output that is at most 400 characters long, so never the
\* whole of a raw output longer than 400 characters.
C15_BoundedExcerpt ==
    (raw.t = "str" /\ ~json_loads(raw.s).ok) =>
        /\ exc.site \in GenerateSites
        /\ exc.detail = json_loads(raw.s).msg
        /\ Len(RawPrefix(exc)) <= 400
        /\ Len(RawPrefix(exc)) <= Len(raw.s)
        /\ RawPrefix(exc) = SubSeq(raw.s, 1, Len(RawPrefix(exc)))
        /\ Len(raw.s) > 400 => RawPrefix(exc) # raw.s

\* the HuggingFaceBackend got 401 characters of prose and raised
C15_Witness ==
    /\ raw.t = "str" /\ Len(raw.s) > 400
    /\ exc.site = "HuggingFaceBackend.generate_project"
    /\ Len(RawPrefix(exc)) = 400

\* the calls the HuggingFaceBackend constructor makes
InitOps == {"transformers.pipeline", "InferenceClient"}

\* a HuggingFaceBackend whose constructor returned: Local-Ready or
\* Remote-Ready
Ready(b) == b.cls = "HuggingFaceBackend" /\ (b.local_pipeline \/ b.client)

\* C16: as long as a constructed HuggingFaceBackend is in use, no step
\* changes the object (its pipeline, its client, its token, its model id),
\* a Local-Ready object holds no hosted client, and no generate_project
\* call, returning or raising, loads the local model or builds a client.
C16_ReadyIsTerminal ==
    [][ (Ready(backend) /\ pc' # "idle") =>
            /\ backend' = backend
            /\ backend'.local_pipeline => ~backend'.client
            /\ pc' = "called" => Ops(calls') \cap InitOps = {}
            /\ pc' \notin {"called", "built"} =>
                  \A op \in InitOps : Count(calls', op) = Count(calls, op)
      ]_vars

\* a generate_project call on a directly built Local-Ready backend that
\* holds a token has raised
C16_Witness ==
    /\ pc = "called" /\ Ready(backend)
    /\ backend.local_pipeline /\ Truthy(backend.hf_token)
    /\ exc.type # ""

\* the calls that go over the network
NetworkOps ==
    {"InferenceClient", "text_generation", "chat_completion",
     "chat.completions.create"}

\* C17: with a Local-Ready backend no network call is made; a
\* generate_project call on it has run the local pipeline once and nothing
\* else, and when the pipeline raised, the call ended with that exception
\* and returned nothing, token or no token.
C17_LocalOnly ==
    (Ready(backend) /\ backend.local_pipeline) =>
        /\ Ops(calls) \cap NetworkOps = {}
        /\ Generated =>
              /\ Len(ProviderCalls) = 1
              /\ ProviderCalls[1].op = "local_pipeline"
              /\ ProviderCalls[1].out = "raise" =>
                    /\ exc = ProviderError("local_pipeline")
                    /\ file_tree = Unset
                    /\ pc \in {"raised", "called"}

\* a create() run with a token, ended by the local pipeline's exception
C17_Witness ==
    /\ InCreate /\ pc = "raised"
    /\ backend.local_pipeline /\ Truthy(backend.hf_token)
    /\ exc = ProviderError("local_pipeline")
    /\ Len(ProviderCalls) = 1

\* C18: a create() run loads the local model at most once and makes at most
\* two provider calls; it makes two only with a Remote-Ready backend, after
\* a text_generation call that raised, followed by chat_completion; with
\* the OpenAIBackend or a Local-Ready backend it makes at most one.
C18_CallBudget ==
    InCreate =>
        /\ Count(calls, "transformers.pipeline") <= 1
        /\ Len(ProviderCalls) <= 2
        /\ Len(ProviderCalls) = 2 =>
              /\ IsRemote(backend) /\ backend.client
              /\ ProviderCalls[1].op = "text_generation"
              /\ ProviderCalls[1].out = "raise"
              /\ ProviderCalls[2].op = "chat_completion"
        /\ (backend.cls = "OpenAIBackend" \/ backend.local_pipeline) =>
              Len(ProviderCalls) <= 1

\* C19: no step changes the credentials the LiftOff instance holds; the
\* backend a create() run selects is the one the priority table gives for
\* those credentials, whatever the environment has become; and a
\* HuggingFaceBackend holds the token its constructor was given and nothing
\* taken from the environment.
C19_CredentialsReadOnce ==
    [][ /\ liftoff' = liftoff
        /\ Selected' => Picked' = ExpectedBackend(liftoff.api_key, liftoff.hf_token)
        /\ backend'.cls = "HuggingFaceBackend" =>
              backend'.hf_token = PyOr(token_arg', None)
      ]_vars

\* C20: when the first call of a Remote-Ready generate_project was
\* text_generation and it returned a response, of whatever shape, no
\* other provider call was made.
C20_ChatOnlyAfterRaise ==
    (IsRemote(backend) /\ ProviderCalls # <<>>
        /\ ProviderCalls[1].op = "text_generation"
        /\ ProviderCalls[1].out # "raise") =>
        Len(ProviderCalls) = 1
====
